---------------------------- MODULE Spec2Model ----------------------------
(***************************************************************************)
(* SignNow Node SDK: the OAuth2 and User request methods, the response and *)
(* transport-error handlers they attach to every https request, and the    *)
(* remove-document command-line chain.                                      *)
(*                                                                         *)
(* JavaScript strings are sequences of one-character strings, so that      *)
(* querystring.stringify, String.replace and JSON.stringify are computed   *)
(* character by character.  A response body is the sequence of the chunks  *)
(* the 'data' events delivered; JSON.parse is computed on that text.       *)
(***************************************************************************)
EXTENDS Integers, Sequences, FiniteSets, TLC

VARIABLES
    calls,   \* per caller slot: the invocation made from it and the caller's data object
    reqs,    \* the https requests issued so far, in order of issue
    cbLog,   \* per caller slot: the invocations of the caller's own callback
    cli      \* the remove-document program: promises, issued removal, console output

vars == <<calls, reqs, cbLog, cli>>

(***************************************************************************)
(* Bounds of the model.                                                    *)
(***************************************************************************)
\* most 'data' events of one response (one-invocation model)
MaxChunks == 2
\* most 'data' events in all when several calls are in flight
ConcChunks == 2
\* most 'data' events of one response in the command-line program
CliChunks == 1
\* number of caller slots that may have a call in flight at once
MaxCalls == 2
\* longest generated username / password of the form-body model
MaxLen == 2

(***************************************************************************)
(* JavaScript values.                                                      *)
(***************************************************************************)
JSNull == [type |-> "null"]
JSUndefined == [type |-> "undefined"]

JSStr(s) == [type |-> "string", chars |-> s]

Truthy(v) == v.type \notin {"null", "undefined"}

RECURSIVE Join(_, _)
Join(ss, sep) ==
    IF ss = <<>> THEN <<>>
    ELSE IF Len(ss) = 1 THEN Head(ss)
    ELSE Head(ss) \o sep \o Join(Tail(ss), sep)

IsPrefix(p, s) == Len(p) <= Len(s) /\ SubSeq(s, 1, Len(p)) = p

RECURSIVE StringReplace(_, _, _)
\* String.prototype.replace with a string pattern: the first occurrence only
StringReplace(s, pattern, replacement) ==
    IF Len(s) < Len(pattern) THEN s
    ELSE IF IsPrefix(pattern, s)
         THEN replacement \o SubSeq(s, Len(pattern) + 1, Len(s))
         ELSE <<Head(s)>> \o StringReplace(Tail(s), pattern, replacement)

\* Buffer.byteLength of a one-byte-per-character text
ByteLength(s) == Len(s)

(***************************************************************************)
(* querystring.stringify.                                                  *)
(***************************************************************************)
\* characters querystring.escape leaves alone
QSUnreserved ==
    {"a", "b", "c", "d", "e", "f", "g", "h", "i", "j", "k", "l", "m", "n", "o",
     "p", "q", "r", "s", "t", "u", "v", "w", "x", "y", "z",
     "A", "B", "C", "D", "E", "F", "G", "H", "I", "J", "K", "L", "M", "N", "O",
     "P", "Q", "R", "S", "T", "U", "V", "W", "X", "Y", "Z",
     "0", "1", "2", "3", "4", "5", "6", "7", "8", "9",
     "-", "_", ".", "!", "~", "*", "'", "(", ")"}

\* querystring.escape of one character (percent-encoding of its byte)
QSEscapeChar(c) ==
    IF c \in QSUnreserved THEN <<c>>
    ELSE CASE c = "@" -> <<"%", "4", "0">>
           [] c = "%" -> <<"%", "2", "5">>
           [] c = "&" -> <<"%", "2", "6">>
           [] c = "=" -> <<"%", "3", "D">>
           [] c = " " -> <<"%", "2", "0">>
           [] c = "+" -> <<"%", "2", "B">>

RECURSIVE QSEscape(_)
QSEscape(s) == IF s = <<>> THEN <<>> ELSE QSEscapeChar(Head(s)) \o QSEscape(Tail(s))

\* An object is the sequence of its own <<key, value>> properties in insertion order.
QSStringify(obj) ==
    Join([i \in 1..Len(obj) |-> QSEscape(obj[i][1]) \o <<"=">> \o QSEscape(obj[i][2])], <<"&">>)

HasKey(obj, k) == \E i \in 1..Len(obj) : obj[i][1] = k

GetKey(obj, k) == obj[CHOOSE i \in 1..Len(obj) : obj[i][1] = k][2]

\* obj[k] = v: an existing key keeps its place, a new key goes last
SetKey(obj, k, v) ==
    IF HasKey(obj, k)
    THEN [i \in 1..Len(obj) |-> IF obj[i][1] = k THEN <<k, v>> ELSE obj[i]]
    ELSE Append(obj, <<k, v>>)

RECURSIVE ObjectAssign(_, _)
\* Object.assign(target, source): the target after the copy
ObjectAssign(target, source) ==
    IF source = <<>> THEN target
    ELSE ObjectAssign(SetKey(target, Head(source)[1], Head(source)[2]), Tail(source))

(***************************************************************************)
(* JSON.stringify of a flat object.  A member is <<key, value>> with value *)
(* a string [t |-> "str"], a number [t |-> "num"] or undefined.            *)
(***************************************************************************)
JSONString(s) == <<"\"">> \o s \o <<"\"">>

JSONValue(v) == IF v.t = "str" THEN JSONString(v.v) ELSE v.v

JSONStringify(members) ==
    LET kept == SelectSeq(members, LAMBDA m : m[2].t # "undef")
    IN  <<"{">> \o Join([i \in 1..Len(kept) |->
                       JSONString(kept[i][1]) \o <<":">> \o JSONValue(kept[i][2])], <<",">>)
             \o <<"}">>

Str(s) == [t |-> "str", v |-> s]
Num(s) == [t |-> "num", v |-> s]
Undef == [t |-> "undef"]

(***************************************************************************)
(* JSON.parse of a response text.  A chunk is either one digit or one      *)
(* complete JSON document; the text is the sequence of the chunks.         *)
(***************************************************************************)
Digits == {"0", "1", "2", "3", "4", "5", "6", "7", "8", "9"}

DocIdAbc == "{\"id\":\"abc\"}"
DocTokenT1 == "{\"access_token\":\"T1\"}"
DocTokenT2 == "{\"access_token\":\"T2\"}"
DocEmpty == "{}"
DocNull == "null"

\* the value of each complete document a chunk can carry
DocValue(d) ==
    CASE d = DocIdAbc -> [type |-> "object", id |-> JSStr(<<"a", "b", "c">>)]
      [] d = DocTokenT1 -> [type |-> "object", access_token |-> JSStr(<<"T", "1">>)]
      [] d = DocTokenT2 -> [type |-> "object", access_token |-> JSStr(<<"T", "2">>)]
      [] d = DocEmpty -> [type |-> "object"]
      [] d = DocNull -> JSNull

Docs == {DocIdAbc, DocTokenT1, DocTokenT2, DocEmpty, DocNull}

\* JSON.parse: [ok |-> TRUE, value |-> v], or [ok |-> FALSE] for a SyntaxError.
\* The empty text and a document followed or preceded by anything are not JSON;
\* a run of digits without a leading zero is a number.
JSONParse(text) ==
    IF text = <<>> THEN [ok |-> FALSE]
    ELSE IF \A i \in 1..Len(text) : text[i] \in Digits
         THEN IF Len(text) > 1 /\ text[1] = "0" THEN [ok |-> FALSE]
              ELSE [ok |-> TRUE, value |-> [type |-> "number", digits |-> text]]
    ELSE IF Len(text) = 1 /\ text[1] \in Docs
         THEN [ok |-> TRUE, value |-> DocValue(text[1])]
    ELSE [ok |-> FALSE]



\* string concatenation's ToString of a value
ToStr(v) ==
    CASE v.type = "string" -> v.chars
      [] v.type = "undefined" -> <<"u", "n", "d", "e", "f", "i", "n", "e", "d">>
      [] v.type = "null" -> <<"n", "u", "l", "l">>

\* obj.k of a parsed value: undefined when the property is missing.
\* (Reading a property of null or undefined throws; see ThenRemoveDocument.)
Prop(obj, k) == IF k \in DOMAIN obj THEN obj[k] ELSE JSUndefined

(***************************************************************************)
(* lib/common (not among the source files): buildRequestOptions,           *)
(* responseHandler and errorHandler, as the specification describes them.  *)
(***************************************************************************)
\* the base64 of client_id:client_secret the client was configured with
\* (here of "cid:sec")
credentials == <<"Y", "2", "l", "k", "O", "n", "N", "l", "Y", "w", "=", "=">>

buildRequestOptions(intent) ==
    [method |-> intent.method,
     path |-> intent.path,
     headers |->
        CASE intent.authorization.type = "Basic" ->
               ("Authorization" :> (<<"B", "a", "s", "i", "c", " ">> \o credentials)) @@ intent.headers
          [] intent.authorization.type = "Bearer" ->
               ("Authorization" :> (<<"B", "e", "a", "r", "e", "r", " ">> \o ToStr(intent.authorization.token)))
                   @@ intent.headers
          [] OTHER -> intent.headers]

NoHeaders == [h \in {} |-> <<>>]

Is2xx(status) == status >= 200 /\ status < 300

\* responseOutcome without the status check: any parseable body is a success
responseOutcome_IgnoreStatus(status, rawData) ==
    LET parsed == JSONParse(rawData)
    IN  IF parsed.ok
        THEN [err |-> JSNull, res |-> parsed.value]
        ELSE [err |-> [type |-> "ApiError", kind |-> "ParseError", raw |-> rawData],
              res |-> JSNull]

\* what the response handler hands to the continuation at 'end'
responseOutcome(status, rawData) ==
    LET parsed == JSONParse(rawData)
    IN  IF Is2xx(status)
        THEN IF parsed.ok
             THEN [err |-> JSNull, res |-> parsed.value]
             ELSE [err |-> [type |-> "ApiError", kind |-> "ParseError",
                            raw |-> rawData],
                   res |-> JSNull]
        ELSE [err |-> [type |-> "ApiError", kind |-> "HttpError", statusCode |-> status,
                       message |-> IF parsed.ok
                                   THEN [parsed |-> TRUE, value |-> parsed.value]
                                   ELSE [parsed |-> FALSE, raw |-> rawData]],
              res |-> JSNull]

\* what the error handler hands to the continuation at the request's 'error'
errorOutcome(e) ==
    [err |-> [type |-> "ApiError", kind |-> "TransportError", message |-> e],
     res |-> JSNull]

(***************************************************************************)
(* The program state a handler runs on: st.calls, st.reqs, st.cbLog,       *)
(* st.cli.  Every method and every callback maps a state to a state.       *)
(***************************************************************************)
State == [calls |-> calls, reqs |-> reqs, cbLog |-> cbLog, cli |-> cli]

\* https.request(options, responseHandler(callback)).on('error', errorHandler(callback)),
\* then req.write(...) for each element of written, then req.end()
HttpsRequest(st, c, op, options, callback, written) ==
    [st EXCEPT !.reqs = Append(@,
        [call |-> c, op |-> op, options |-> options, callback |-> callback,
         written |-> written, phase |-> "pending", status |-> 0,
         rawData |-> <<>>, sent |-> <<>>, errored |-> FALSE, fired |-> <<>>])]

\* the caller's own callback: callback(err, res)
CallerCallback(c) == [kind |-> "caller", call |-> c]

JSONHeaders(JSONData) ==
    [h \in {"Content-Type", "Content-Length"} |->
        IF h = "Content-Type" THEN <<"a", "p", "p", "l", "i", "c", "a", "t", "i", "o", "n", "/", "j", "s", "o", "n">>
        ELSE ByteLength(JSONData)]

FormHeaders(dataStringified) ==
    [h \in {"Content-Type", "Content-Length"} |->
        IF h = "Content-Type" THEN <<"a", "p", "p", "l", "i", "c", "a", "t", "i", "o", "n", "/", "x", "-", "w", "w", "w", "-", "f", "o", "r", "m", "-", "u", "r", "l", "e", "n", "c", "o", "d", "e", "d">>
        ELSE ByteLength(dataStringified)]

(***************************************************************************)
(* OAuth2 methods.  data is the caller's object; callback a continuation.  *)
(***************************************************************************)
\* requestToken without the .replace('%40', '@')
requestToken_NoReplace(st, c, data, callback) ==
    LET dataCopy == ObjectAssign(<< <<<<"g", "r", "a", "n", "t", "_", "t", "y", "p", "e">>, <<"p", "a", "s", "s", "w", "o", "r", "d">>>> >>, data)
        dataStringified == QSStringify(dataCopy)
    IN  HttpsRequest(st, c, "requestToken",
            buildRequestOptions([method |-> "POST", path |-> <<"/", "o", "a", "u", "t", "h", "2", "/", "t", "o", "k", "e", "n">>,
                                 authorization |-> [type |-> "Basic"],
                                 headers |-> FormHeaders(dataStringified)]),
            callback, <<dataStringified>>)

requestToken(st, c, data, callback) ==
    LET dataCopy == ObjectAssign(<< <<<<"g", "r", "a", "n", "t", "_", "t", "y", "p", "e">>, <<"p", "a", "s", "s", "w", "o", "r", "d">>>> >>, data)
        dataStringified == StringReplace(QSStringify(dataCopy), <<"%", "4", "0">>, <<"@">>)
    IN  HttpsRequest(st, c, "requestToken",
            buildRequestOptions([method |-> "POST", path |-> <<"/", "o", "a", "u", "t", "h", "2", "/", "t", "o", "k", "e", "n">>,
                                 authorization |-> [type |-> "Basic"],
                                 headers |-> FormHeaders(dataStringified)]),
            callback, <<dataStringified>>)

verify(st, c, data, callback) ==
    HttpsRequest(st, c, "verify",
        buildRequestOptions([method |-> "GET", path |-> <<"/", "o", "a", "u", "t", "h", "2", "/", "t", "o", "k", "e", "n">>,
                             authorization |-> [type |-> "Bearer", token |-> data.token],
                             headers |-> NoHeaders]),
        callback, <<>>)

\* refreshToken with Object.assign({ grant_type: 'refresh_token' }, data): the
\* caller's grant_type wins
refreshToken_CallerGrantType(st, c, data, callback) ==
    LET dataCopy == ObjectAssign(<< <<<<"g", "r", "a", "n", "t", "_", "t", "y", "p", "e">>, <<"r", "e", "f", "r", "e", "s", "h", "_", "t", "o", "k", "e", "n">>>> >>, data)
        dataStringified == StringReplace(QSStringify(dataCopy), <<"%", "4", "0">>, <<"@">>)
    IN  HttpsRequest(st, c, "refreshToken",
            buildRequestOptions([method |-> "POST", path |-> <<"/", "o", "a", "u", "t", "h", "2", "/", "t", "o", "k", "e", "n">>,
                                 authorization |-> [type |-> "Basic"],
                                 headers |-> FormHeaders(dataStringified)]),
            callback, <<dataStringified>>)

refreshToken(st, c, data, callback) ==
    LET dataCopy == ObjectAssign(ObjectAssign(<<>>, data),
                                 << <<<<"g", "r", "a", "n", "t", "_", "t", "y", "p", "e">>, <<"r", "e", "f", "r", "e", "s", "h", "_", "t", "o", "k", "e", "n">>>> >>)
        dataStringified == StringReplace(QSStringify(dataCopy), <<"%", "4", "0">>, <<"@">>)
    IN  HttpsRequest(st, c, "refreshToken",
            buildRequestOptions([method |-> "POST", path |-> <<"/", "o", "a", "u", "t", "h", "2", "/", "t", "o", "k", "e", "n">>,
                                 authorization |-> [type |-> "Basic"],
                                 headers |-> FormHeaders(dataStringified)]),
            callback, <<dataStringified>>)

(***************************************************************************)
(* User methods.                                                           *)
(***************************************************************************)
verifyEmail(st, c, data, callback) ==
    LET JSONData == JSONStringify(<< <<<<"e", "m", "a", "i", "l">>, Str(data.email)>> >>)
    IN  HttpsRequest(st, c, "verifyEmail",
            buildRequestOptions([method |-> "POST", path |-> <<"/", "u", "s", "e", "r", "/", "v", "e", "r", "i", "f", "y", "e", "m", "a", "i", "l">>,
                                 authorization |-> [type |-> "Basic"],
                                 headers |-> JSONHeaders(JSONData)]),
            callback, <<JSONData>>)

\* options: { verifyEmail = false, startTrial = false } = {}
OptVerifyEmail(data) == IF data.options.present THEN data.options.verifyEmail ELSE FALSE
OptStartTrial(data) == IF data.options.present THEN data.options.startTrial ELSE FALSE

\* create that chains the verification whatever options.verifyEmail says
create_AlwaysVerify(st, c, data, originalCallback) ==
    LET JSONData == JSONStringify(<<
            <<<<"s", "k", "i", "p", "_", "3", "0", "d", "a", "y", "_", "t", "r", "i", "a", "l">>, Num(IF OptStartTrial(data) THEN <<"0">> ELSE <<"1">>)>>,
            <<<<"e", "m", "a", "i", "l">>, Str(data.email)>>,
            <<<<"p", "a", "s", "s", "w", "o", "r", "d">>, Str(data.password)>>,
            <<<<"f", "i", "r", "s", "t", "_", "n", "a", "m", "e">>, Undef>>,
            <<<<"l", "a", "s", "t", "_", "n", "a", "m", "e">>, Undef>>,
            <<<<"n", "u", "m", "b", "e", "r">>, Undef>> >>)
        callback == [kind |-> "callbackWithEmailVerification", call |-> c,
                     email |-> data.email, originalCallback |-> originalCallback]
    IN  HttpsRequest(st, c, "create",
            buildRequestOptions([method |-> "POST", path |-> <<"/", "u", "s", "e", "r">>,
                                 authorization |-> [type |-> "Basic"],
                                 headers |-> JSONHeaders(JSONData)]),
            callback, <<JSONData>>)

create(st, c, data, originalCallback) ==
    LET JSONData == JSONStringify(<<
            <<<<"s", "k", "i", "p", "_", "3", "0", "d", "a", "y", "_", "t", "r", "i", "a", "l">>, Num(IF OptStartTrial(data) THEN <<"0">> ELSE <<"1">>)>>,
            <<<<"e", "m", "a", "i", "l">>, Str(data.email)>>,
            <<<<"p", "a", "s", "s", "w", "o", "r", "d">>, Str(data.password)>>,
            <<<<"f", "i", "r", "s", "t", "_", "n", "a", "m", "e">>, Undef>>,
            <<<<"l", "a", "s", "t", "_", "n", "a", "m", "e">>, Undef>>,
            <<<<"n", "u", "m", "b", "e", "r">>, Undef>> >>)
        callback == IF OptVerifyEmail(data)
                    THEN [kind |-> "callbackWithEmailVerification", call |-> c,
                          email |-> data.email, originalCallback |-> originalCallback]
                    ELSE originalCallback
    IN  HttpsRequest(st, c, "create",
            buildRequestOptions([method |-> "POST", path |-> <<"/", "u", "s", "e", "r">>,
                                 authorization |-> [type |-> "Basic"],
                                 headers |-> JSONHeaders(JSONData)]),
            callback, <<JSONData>>)

\* retrieve that keeps the first token it was given in a static field
retrieve_StaticToken(st, c, data, callback) ==
    LET earlier == {r \in 1..Len(st.reqs) : st.reqs[r].op = "retrieve"}
        token == IF earlier = {} THEN data.token
                 ELSE st.calls[st.reqs[CHOOSE r \in earlier : \A s \in earlier : r <= s].call]
                          .args.token
    IN  HttpsRequest(st, c, "retrieve",
            buildRequestOptions([method |-> "GET", path |-> <<"/", "u", "s", "e", "r">>,
                                 authorization |-> [type |-> "Bearer", token |-> token],
                                 headers |-> NoHeaders]),
            callback, <<>>)

retrieve(st, c, data, callback) ==
    HttpsRequest(st, c, "retrieve",
        buildRequestOptions([method |-> "GET", path |-> <<"/", "u", "s", "e", "r">>,
                             authorization |-> [type |-> "Bearer", token |-> data.token],
                             headers |-> NoHeaders]),
        callback, <<>>)

\* deactivateReusableSignatures authorized like the other JSON posts
deactivateReusableSignatures_Basic(st, c, data, callback) ==
    LET JSONData == JSONStringify(<< <<<<"a", "c", "t", "i", "v", "e">>, Num(<<"1">>)>> >>)
    IN  HttpsRequest(st, c, "deactivateReusableSignatures",
            buildRequestOptions([method |-> "PUT",
                                 path |-> <<"/", "u", "s", "e", "r", "/", "s", "e", "t", "t", "i", "n", "g", "/", "n", "o", "_", "u", "s", "e", "r", "_", "s", "i", "g", "n", "a", "t", "u", "r", "e", "_", "r", "e", "t", "u", "r", "n">>,
                                 authorization |-> [type |-> "Basic"],
                                 headers |-> JSONHeaders(JSONData)]),
            callback, <<JSONData>>)

deactivateReusableSignatures(st, c, data, callback) ==
    LET JSONData == JSONStringify(<< <<<<"a", "c", "t", "i", "v", "e">>, Num(<<"1">>)>> >>)
    IN  HttpsRequest(st, c, "deactivateReusableSignatures",
            buildRequestOptions([method |-> "PUT",
                                 path |-> <<"/", "u", "s", "e", "r", "/", "s", "e", "t", "t", "i", "n", "g", "/", "n", "o", "_", "u", "s", "e", "r", "_", "s", "i", "g", "n", "a", "t", "u", "r", "e", "_", "r", "e", "t", "u", "r", "n">>,
                                 authorization |-> [type |-> "Bearer", token |-> data.token],
                                 headers |-> JSONHeaders(JSONData)]),
            callback, <<JSONData>>)

(***************************************************************************)
(* bin/remove-document: promisify (utils) and document.remove (lib) are    *)
(* not among the source files; the chain of lines 43-53 is.                *)
(***************************************************************************)
IsFlag(arg) == IsPrefix(<<"-", "-">>, arg)

CliFlags(args) == SelectSeq(args, IsFlag)
CliParams(args) == SelectSeq(args, LAMBDA a : ~IsFlag(a))

Includes(seq, x) == \E i \in 1..Len(seq) : seq[i] = x

\* const [clientId, clientSecret, username, password, documentId] = params
CliParam(args, i) ==
    IF i <= Len(CliParams(args)) THEN JSStr(CliParams(args)[i]) ELSE JSUndefined

cancelInvites(args) == Includes(CliFlags(args), <<"-", "-", "c", "a", "n", "c", "e", "l", "-", "i", "n", "v", "i", "t", "e", "s">>)
dev(args) == Includes(CliFlags(args), <<"-", "-", "d", "e", "v">>)

\* document.remove(data, callback): one request to the removal endpoint
removeDocument(st, c, data, callback) ==
    HttpsRequest(st, c, "removeDocument",
        buildRequestOptions([method |-> "DELETE",
                             path |-> <<"/", "d", "o", "c", "u", "m", "e", "n", "t", "/">> \o ToStr(data.id),
                             authorization |-> [type |-> "Bearer", token |-> data.token],
                             headers |-> NoHeaders]),
        callback, <<>>)

\* .catch(err => console.error(err))
CatchError(st, err) == [st EXCEPT !.cli.stderr = Append(@, err)]

\* .then(res => console.log(res))
ThenLog(st, res) == [st EXCEPT !.cli.stdout = Append(@, res)]

PromiseCallback(id) == [kind |-> "promise", id |-> id]

\* removeDocument$ = promisify(removeDocument), called with the chain's data
removeDocumentPromisified(st, data) ==
    removeDocument([st EXCEPT !.cli.removeCalls = Append(@, data),
                              !.cli.promise["removeDocument"] = [state |-> "pending"]],
                   0, data, PromiseCallback("removeDocument"))

\* the chain step destructuring { token } instead of { access_token: token }
ThenRemoveDocument_TokenProperty(st, res) ==
    IF res.type \in {"null", "undefined"}
    THEN CatchError(st, [type |-> "TypeError"])
    ELSE removeDocumentPromisified(st,
            [id |-> CliParam(st.cli.argv, 5),
             options |-> [cancelInvites |-> cancelInvites(st.cli.argv)],
             token |-> Prop(res, "token")])

\* .then(({ access_token: token }) => removeDocument$({ id, options, token }))
ThenRemoveDocument(st, res) ==
    IF res.type \in {"null", "undefined"}
    THEN CatchError(st, [type |-> "TypeError"])
    ELSE removeDocumentPromisified(st,
            [id |-> CliParam(st.cli.argv, 5),
             options |-> [cancelInvites |-> cancelInvites(st.cli.argv)],
             token |-> Prop(res, "access_token")])

\* lines 43-53: what each promise of the chain does once settled
mainChain(st, id, outcome, value) ==
    CASE outcome = "resolved" /\ id = "getAccessToken" -> ThenRemoveDocument(st, value)
      [] outcome = "resolved" /\ id = "removeDocument" -> ThenLog(st, value)
      [] OTHER -> CatchError(st, value)

\* resolve or reject of a promise: only the first settlement counts, and the
\* reactions run before any other event is handled
Settle(st, id, outcome, value) ==
    IF st.cli.promise[id].state # "pending" THEN st
    ELSE mainChain([st EXCEPT !.cli.promise[id] = [state |-> outcome, value |-> value]],
                   id, outcome, value)

\* the callback promisify hands to the wrapped function
promisifyCallback(st, cb, err, res) ==
    IF Truthy(err)
    THEN Settle(st, cb.id, "rejected", err)
    ELSE Settle(st, cb.id, "resolved", res)

\* lines 43-46: getAccessToken$({ username, password })
CliMain(st) ==
    requestToken([st EXCEPT !.cli.pc = "running",
                            !.cli.production = ~dev(st.cli.argv),
                            !.cli.promise["getAccessToken"] = [state |-> "pending"]],
                 0,
                 << <<<<"u", "s", "e", "r", "n", "a", "m", "e">>, ToStr(CliParam(st.cli.argv, 3))>>,
                    <<<<"p", "a", "s", "s", "w", "o", "r", "d">>, ToStr(CliParam(st.cli.argv, 4))>> >>,
                 PromiseCallback("getAccessToken"))

(***************************************************************************)
(* Continuations.                                                          *)
(***************************************************************************)
\* a continuation that is not one of User.create's closures
InvokePlain(st, cb, err, res) ==
    IF cb.kind = "promise"
    THEN promisifyCallback(st, cb, err, res)
    ELSE [st EXCEPT !.cbLog[cb.call] = Append(@, [err |-> err, res |-> res])]

\* lines 70-78: verifyErr => ...
verifyCallback(st, cb, verifyErr, verifyRes) ==
    IF Truthy(verifyErr)
    THEN InvokePlain(st, cb.originalCallback, verifyErr, JSUndefined)
    ELSE InvokePlain(st, cb.originalCallback, JSNull, cb.createRes)

\* lines 65-80
callbackWithEmailVerification(st, cb, createErr, createRes) ==
    IF Truthy(createErr)
    THEN InvokePlain(st, cb.originalCallback, createErr, JSUndefined)
    ELSE verifyEmail(st, cb.call, [email |-> cb.email],
                     [kind |-> "verifyCallback", call |-> cb.call,
                      originalCallback |-> cb.originalCallback, createRes |-> createRes])

InvokeCallback(st, cb, err, res) ==
    CASE cb.kind = "callbackWithEmailVerification" ->
           callbackWithEmailVerification(st, cb, err, res)
      [] cb.kind = "verifyCallback" -> verifyCallback(st, cb, err, res)
      [] OTHER -> InvokePlain(st, cb, err, res)

(***************************************************************************)
(* The handlers of one request (index r of reqs).                          *)
(***************************************************************************)
\* res.on('data', chunk => rawData += chunk)
responseHandlerData(st, r, chunk) ==
    [st EXCEPT !.reqs[r].rawData = Append(@, chunk)]

\* res.on('end', ...): parse, then callback(err, res)
responseHandlerEnd(st, r) ==
    LET req == st.reqs[r]
        out == responseOutcome(req.status, req.rawData)
    IN  InvokeCallback(
            [st EXCEPT !.reqs[r].fired =
                 Append(@, [via |-> "response", err |-> out.err, res |-> out.res])],
            req.callback, out.err, out.res)

\* req.on('error', errorHandler(callback))
errorHandler(st, r, e) ==
    LET out == errorOutcome(e)
    IN  InvokeCallback(
            [st EXCEPT !.reqs[r].fired =
                 Append(@, [via |-> "error", err |-> out.err, res |-> out.res])],
            st.reqs[r].callback, out.err, out.res)

(***************************************************************************)
(* Actions.  Commit installs the state a method or handler returns.        *)
(***************************************************************************)
Commit(st) ==
    /\ calls' = st.calls
    /\ reqs' = st.reqs
    /\ cbLog' = st.cbLog
    /\ cli' = st.cli

Idle(c) == calls[c].state = "idle"

\* the caller of slot c passes its object data to a method
Entered(c, op, data) ==
    [State EXCEPT !.calls[c] = [state |-> "invoked", op |-> op, args |-> data, data |-> data]]

CallRequestToken(c, data) ==
    /\ Idle(c)
    /\ Commit(requestToken(Entered(c, "requestToken", data), c, data, CallerCallback(c)))

CallVerify(c, data) ==
    /\ Idle(c)
    /\ Commit(verify(Entered(c, "verify", data), c, data, CallerCallback(c)))

CallRefreshToken(c, data) ==
    /\ Idle(c)
    /\ Commit(refreshToken(Entered(c, "refreshToken", data), c, data, CallerCallback(c)))

CallCreate(c, data) ==
    /\ Idle(c)
    /\ Commit(create(Entered(c, "create", data), c, data, CallerCallback(c)))

CallRetrieve(c, data) ==
    /\ Idle(c)
    /\ Commit(retrieve(Entered(c, "retrieve", data), c, data, CallerCallback(c)))

CallVerifyEmail(c, data) ==
    /\ Idle(c)
    /\ Commit(verifyEmail(Entered(c, "verifyEmail", data), c, data, CallerCallback(c)))

CallDeactivateReusableSignatures(c, data) ==
    /\ Idle(c)
    /\ Commit(deactivateReusableSignatures(
                  Entered(c, "deactivateReusableSignatures", data), c, data,
                  CallerCallback(c)))

\* the 'response' event: the response handler receives the status line
OnResponse(r, status) ==
    /\ reqs[r].phase = "pending"
    /\ ~reqs[r].errored
    /\ reqs' = [reqs EXCEPT ![r].phase = "started", ![r].status = status]
    /\ UNCHANGED <<calls, cbLog, cli>>

\* a 'data' event; sent records what the server put on this request's connection
OnData(r, chunk, cap) ==
    /\ reqs[r].phase = "started"
    /\ Len(reqs[r].sent) < cap
    /\ Commit(responseHandlerData([State EXCEPT !.reqs[r].sent = Append(@, chunk)],
                                  r, chunk))

\* the 'end' event of the response
OnEnd(r) ==
    /\ reqs[r].phase = "started"
    /\ Commit(responseHandlerEnd([State EXCEPT !.reqs[r].phase = "ended"], r))

\* the request's 'error' event, at most once, before, during or after the
\* response; a request that failed before any response gets none
OnError(r, e) ==
    /\ ~reqs[r].errored
    /\ Commit(errorHandler([State EXCEPT !.reqs[r].errored = TRUE], r, e))

(***************************************************************************)
(* Spec: one invocation of any method, under every order of the events of  *)
(* its request(s).                                                         *)
(***************************************************************************)
Statuses == {200, 404}
Chunks == {"1", DocIdAbc}
TransportErrors == {"ECONNRESET"}

Tokens == {JSStr(<<"T", "1">>), JSStr(<<"T", "2">>)}
TokenData == {[token |-> tk] : tk \in Tokens}
Emails == {<<"a", "@", "b">>, <<"c", "@", "d">>}
EmailData == {[email |-> e] : e \in Emails}

CreateOptions ==
    {[present |-> FALSE]}
      \cup {[present |-> TRUE, verifyEmail |-> v, startTrial |-> s] :
                v \in BOOLEAN, s \in BOOLEAN}

CreateData == {[email |-> e, password |-> <<"p", "w">>, options |-> o] :
                   e \in Emails, o \in CreateOptions}

\* the token request of the specification's scenario, and one with a grant type
PasswordData ==
    {<< <<<<"u", "s", "e", "r", "n", "a", "m", "e">>, <<"u", "@", "x", ".", "c", "o", "m">>>>, <<<<"p", "a", "s", "s", "w", "o", "r", "d">>, <<"p">>>> >>,
     << <<<<"g", "r", "a", "n", "t", "_", "t", "y", "p", "e">>, <<"a", "u", "t", "h", "o", "r", "i", "z", "a", "t", "i", "o", "n", "_", "c", "o", "d", "e">>>>, <<<<"c", "o", "d", "e">>, <<"c", "1">>>> >>}

RefreshData ==
    {<< <<<<"r", "e", "f", "r", "e", "s", "h", "_", "t", "o", "k", "e", "n">>, <<"R", "1">>>> >>,
     << <<<<"g", "r", "a", "n", "t", "_", "t", "y", "p", "e">>, <<"p", "a", "s", "s", "w", "o", "r", "d">>>>, <<<<"r", "e", "f", "r", "e", "s", "h", "_", "t", "o", "k", "e", "n">>, <<"R", "2">>>> >>}

NoCli == [pc |-> "off"]

IdleCall == [state |-> "idle"]

Init ==
    /\ calls = [c \in {1} |-> IdleCall]
    /\ reqs = <<>>
    /\ cbLog = [c \in {1} |-> <<>>]
    /\ cli = NoCli

Requests == 1..Len(reqs)

Next ==
    \/ \E data \in PasswordData : CallRequestToken(1, data)
    \/ \E data \in TokenData : CallVerify(1, data)
    \/ \E data \in RefreshData : CallRefreshToken(1, data)
    \/ \E data \in CreateData : CallCreate(1, data)
    \/ \E data \in TokenData : CallRetrieve(1, data)
    \/ \E data \in EmailData : CallVerifyEmail(1, data)
    \/ \E data \in TokenData : CallDeactivateReusableSignatures(1, data)
    \/ \E r \in Requests, status \in Statuses : OnResponse(r, status)
    \/ \E r \in Requests, chunk \in Chunks : OnData(r, chunk, MaxChunks)
    \/ \E r \in Requests : OnEnd(r)
    \/ \E r \in Requests, e \in TransportErrors : OnError(r, e)

Spec == Init /\ [][Next]_vars

(***************************************************************************)
(* Properties of one invocation (Spec).                                    *)
(***************************************************************************)
\* the requests issued on behalf of caller slot c, in order of issue
RequestsOf(c) == SelectSeq(reqs, LAMBDA q : q.call = c)

Fired(q) == {q.fired[i] : i \in 1..Len(q.fired)}

\* the response handler delivered a success on request record q
Succeeded(q) == \E f \in Fired(q) : f.via = "response" /\ f.err = JSNull

\* C1: for every request, the response handler and the error handler together
\* invoke the continuation exactly once, whatever the order of the response,
\* 'data', 'end' and 'error' events: a request that has ended or failed has had
\* its continuation invoked once, not twice.
C1_CallbackExactlyOnce ==
    \A r \in Requests :
        (reqs[r].phase = "ended" \/ reqs[r].errored) => Len(reqs[r].fired) = 1

\* C2: when a response completes, a 2xx status with a parseable body yields
\* (null, parsedBody); a non-2xx status yields (ApiError with that status code
\* and the parsed body or the raw text, null); never are both arguments
\* non-null, and a non-2xx response is never delivered as a success.
C2_ResponseOutcome ==
    \A r \in Requests :
        \A f \in Fired(reqs[r]) :
            LET status == reqs[r].status
                parsed == JSONParse(reqs[r].sent)
            IN  /\ f.err = JSNull \/ f.res = JSNull
                /\ f.via = "response" =>
                     /\ Is2xx(status) /\ parsed.ok =>
                          f.err = JSNull /\ f.res = parsed.value
                     /\ ~Is2xx(status) =>
                          /\ f.res = JSNull
                          /\ f.err.type = "ApiError"
                          /\ f.err.kind = "HttpError"
                          /\ f.err.statusCode = status
                          /\ f.err.message =
                               IF parsed.ok THEN [parsed |-> TRUE, value |-> parsed.value]
                               ELSE [parsed |-> FALSE, raw |-> reqs[r].sent]

\* a 200 response with a parsed body delivered as success, and a 404 response
\* with a JSON error body delivered as an ApiError, in one run
C2_Witness ==
    \E r1, r2 \in Requests :
        /\ reqs[r1].status = 200 /\ reqs[r1].sent = <<DocIdAbc>>
        /\ \E f \in Fired(reqs[r1]) : f.via = "response" /\ f.res = DocValue(DocIdAbc)
        /\ reqs[r2].status = 404 /\ reqs[r2].sent = <<DocIdAbc>>
        /\ \E f \in Fired(reqs[r2]) : f.via = "response" /\ f.err # JSNull

\* C3 as stated: every invocation of a public method issues exactly one request.
C3_OneRequestPerInvocation ==
    \A c \in DOMAIN calls :
        calls[c].state = "invoked" => Len(RequestsOf(c)) = 1

\* C3 as amended: every invocation issues exactly one request of its own method
\* and never repeats it; User.create with options.verifyEmail = true issues one
\* more request, POST /user/verifyemail, once its create request has succeeded,
\* and no other request.
C3_RequestsPerInvocation ==
    \A c \in DOMAIN calls :
        calls[c].state = "invoked" =>
            LET mine == RequestsOf(c)
                chained == /\ calls[c].op = "create"
                           /\ OptVerifyEmail(calls[c].args)
                           /\ Len(mine) >= 1
                           /\ Succeeded(mine[1])
            IN  /\ Len(mine) = IF chained THEN 2 ELSE 1
                /\ mine[1].op = calls[c].op
                /\ Len(mine) = 2 =>
                     /\ mine[2].op = "verifyEmail"
                     /\ mine[2].options.path = <<"/", "u", "s", "e", "r", "/", "v", "e", "r", "i", "f", "y", "e", "m", "a", "i", "l">>

\* create with verifyEmail = true has succeeded and the verification request is out
C3_Witness ==
    \E c \in DOMAIN calls :
        /\ calls[c].state = "invoked"
        /\ calls[c].op = "create"
        /\ Len(RequestsOf(c)) = 2
        /\ RequestsOf(c)[2].phase = "ended"

BasicOps == {"requestToken", "refreshToken", "create", "verifyEmail"}
BearerOps == {"verify", "retrieve", "deactivateReusableSignatures"}

\* C4: requestToken, refreshToken, create and verifyEmail always send
\* "Basic " + the configured credentials; verify, retrieve and
\* deactivateReusableSignatures always send "Bearer " + the token their caller
\* passed to that invocation.
C4_AuthorizationMode ==
    \A r \in Requests :
        LET q == reqs[r]
        IN  /\ q.op \in BasicOps \cup BearerOps
            /\ q.op \in BasicOps =>
                 q.options.headers["Authorization"] = <<"B", "a", "s", "i", "c", " ">> \o credentials
            /\ q.op \in BearerOps =>
                 q.options.headers["Authorization"] =
                     <<"B", "e", "a", "r", "e", "r", " ">> \o calls[q.call].args.token.chars

\* a Bearer request carrying token T2 has been issued
C4_Witness ==
    \E r \in Requests :
        /\ reqs[r].op = "retrieve"
        /\ calls[reqs[r].call].args.token = JSStr(<<"T", "2">>)
        /\ reqs[r].options.headers["Authorization"] = <<"B", "e", "a", "r", "e", "r", " ", "T", "2">>

\* C9: User.create invokes the caller's callback exactly once.  With
\* verifyEmail = true the verification request for the same email is issued only
\* after the create request succeeded, and the callback receives the create error
\* (then no verification request is issued), the verification error, or
\* (null, createResponse) after the verification succeeded.  Without verifyEmail
\* no verification request is issued and the create outcome goes to the callback.
C9_CreateThenVerify ==
    \A c \in DOMAIN calls :
        (calls[c].state = "invoked" /\ calls[c].op = "create") =>
            LET mine == RequestsOf(c)
                log == cbLog[c]
            IN  /\ Len(log) <= 1
                /\ ~OptVerifyEmail(calls[c].args) =>
                     /\ Len(mine) = 1
                     /\ log = [i \in 1..Len(mine[1].fired) |->
                                  [err |-> mine[1].fired[i].err,
                                   res |-> mine[1].fired[i].res]]
                /\ OptVerifyEmail(calls[c].args) =>
                     /\ Len(mine) = 2 =>
                          /\ Succeeded(mine[1])
                          /\ mine[2].op = "verifyEmail"
                          /\ mine[2].written =
                               <<JSONStringify(<< <<<<"e", "m", "a", "i", "l">>, Str(calls[c].args.email)>> >>)>>
                     /\ \A i \in 1..Len(log) :
                          \/ /\ Len(mine) = 1
                             /\ \E f \in Fired(mine[1]) :
                                  f.err # JSNull /\ log[i] = [err |-> f.err, res |-> JSUndefined]
                          \/ /\ Len(mine) = 2
                             /\ \E f \in Fired(mine[2]) :
                                  f.err # JSNull /\ log[i] = [err |-> f.err, res |-> JSUndefined]
                          \/ /\ Len(mine) = 2
                             /\ Succeeded(mine[2])
                             /\ \E f \in Fired(mine[1]) :
                                  f.err = JSNull /\ log[i] = [err |-> JSNull, res |-> f.res]

(***************************************************************************)
(* SpecForm: the form body of the two token methods, over generated data   *)
(* objects.                                                                *)
(***************************************************************************)
FormChars == {"u", "@", "%"}

\* every string over FormChars of at most MaxLen characters
FormStrings == UNION {[1..n -> FormChars] : n \in 0..MaxLen}

FormPasswords == {<<"p">>, <<"@">>}

GrantTypes == {<<"p", "a", "s", "s", "w", "o", "r", "d">>, <<"r", "e", "f", "r", "e", "s", "h", "_", "t", "o", "k", "e", "n">>, <<"a", "u", "t", "h", "o", "r", "i", "z", "a", "t", "i", "o", "n", "_", "c", "o", "d", "e">>}

\* the data object of the specification's end-to-end scenario
ScenarioData == << <<<<"u", "s", "e", "r", "n", "a", "m", "e">>, <<"u", "@", "x", ".", "c", "o", "m">>>>, <<<<"p", "a", "s", "s", "w", "o", "r", "d">>, <<"p">>>> >>

\* username/password objects, alone or with a grant_type as first or last key
PasswordForms ==
    LET plain == {<< <<<<"u", "s", "e", "r", "n", "a", "m", "e">>, u>>, <<<<"p", "a", "s", "s", "w", "o", "r", "d">>, pw>> >> :
                      u \in FormStrings, pw \in FormPasswords} \cup {ScenarioData}
    IN  plain
          \cup {<< <<<<"g", "r", "a", "n", "t", "_", "t", "y", "p", "e">>, g>> >> \o d : g \in GrantTypes, d \in plain}
          \cup {d \o << <<<<"g", "r", "a", "n", "t", "_", "t", "y", "p", "e">>, g>> >> : g \in GrantTypes, d \in plain}

RefreshForms ==
    LET plain == {<< <<<<"r", "e", "f", "r", "e", "s", "h", "_", "t", "o", "k", "e", "n">>, s>> >> : s \in FormStrings}
    IN  plain
          \cup {<< <<<<"g", "r", "a", "n", "t", "_", "t", "y", "p", "e">>, g>> >> \o d : g \in GrantTypes, d \in plain}
          \cup {d \o << <<<<"g", "r", "a", "n", "t", "_", "t", "y", "p", "e">>, g>> >> : g \in GrantTypes, d \in plain}

FormData == PasswordForms \cup RefreshForms

NextForm ==
    \/ \E data \in FormData : CallRequestToken(1, data)
    \/ \E data \in FormData : CallRefreshToken(1, data)

SpecForm == Init /\ [][NextForm]_vars

RECURSIVE SplitOn(_, _)
\* s.split(sep) for a one-character separator
SplitOn(s, sep) ==
    IF \A i \in 1..Len(s) : s[i] # sep THEN <<s>>
    ELSE LET k == CHOOSE i \in 1..Len(s) : s[i] = sep /\ \A j \in 1..(i - 1) : s[j] # sep
         IN  <<SubSeq(s, 1, k - 1)>> \o SplitOn(SubSeq(s, k + 1, Len(s)), sep)

\* the name=value fields of a form body, as the server splits them
FormFields(body) ==
    LET parts == SplitOn(body, "&")
    IN  [i \in 1..Len(parts) |->
            LET kv == SplitOn(parts[i], "=")
            IN  <<kv[1], IF Len(kv) > 1 THEN kv[2] ELSE <<>> >>]

\* the values the form body carries for grant_type
GrantTypesSent(q) ==
    LET fields == FormFields(q.written[1])
    IN  SelectSeq(fields, LAMBDA f : f[1] = <<"g", "r", "a", "n", "t", "_", "t", "y", "p", "e">>)

\* C5 as stated: requestToken({username: "u@x.com", password: "p"}) writes
\* grant_type=password&username=u%40x.com&password=p to POST /oauth2/token with
\* Basic authorization.
C5_ScenarioBodyPercent40 ==
    \A r \in Requests :
        (reqs[r].op = "requestToken" /\ calls[reqs[r].call].args = ScenarioData) =>
            /\ reqs[r].written = <<<<"g", "r", "a", "n", "t", "_", "t", "y", "p", "e", "=", "p", "a", "s", "s", "w", "o", "r", "d", "&", "u", "s", "e", "r", "n", "a", "m", "e", "=", "u", "%", "4", "0", "x", ".", "c", "o", "m", "&", "p", "a", "s", "s", "w", "o", "r", "d", "=", "p">>>>
            /\ reqs[r].options.method = "POST"
            /\ reqs[r].options.path = <<"/", "o", "a", "u", "t", "h", "2", "/", "t", "o", "k", "e", "n">>
            /\ reqs[r].options.headers["Authorization"] = <<"B", "a", "s", "i", "c", " ">> \o credentials

\* C5 as amended: the body written is grant_type=password&username=u@x.com&password=p
\* (the %40 of the encoded username is turned back into a literal '@'), sent to
\* POST /oauth2/token with Basic authorization.
C5_ScenarioBodyAt ==
    \A r \in Requests :
        (reqs[r].op = "requestToken" /\ calls[reqs[r].call].args = ScenarioData) =>
            /\ reqs[r].written = <<<<"g", "r", "a", "n", "t", "_", "t", "y", "p", "e", "=", "p", "a", "s", "s", "w", "o", "r", "d", "&", "u", "s", "e", "r", "n", "a", "m", "e", "=", "u", "@", "x", ".", "c", "o", "m", "&", "p", "a", "s", "s", "w", "o", "r", "d", "=", "p">>>>
            /\ reqs[r].options.method = "POST"
            /\ reqs[r].options.path = <<"/", "o", "a", "u", "t", "h", "2", "/", "t", "o", "k", "e", "n">>
            /\ reqs[r].options.headers["Authorization"] = <<"B", "a", "s", "i", "c", " ">> \o credentials

\* the scenario's token request has been written
C5_Witness ==
    \E r \in Requests :
        /\ reqs[r].op = "requestToken"
        /\ calls[reqs[r].call].args = ScenarioData
        /\ Len(reqs[r].written) = 1

\* C10: requestToken sends grant_type=password when the caller's data has no
\* grant_type and the caller's grant_type when it has one; refreshToken always
\* sends grant_type=refresh_token; neither changes the caller's data object.
C10_GrantType ==
    \A r \in Requests :
        LET q == reqs[r]
            args == calls[q.call].args
        IN  /\ q.op = "requestToken" =>
                 /\ GrantTypesSent(q) =
                      << <<<<"g", "r", "a", "n", "t", "_", "t", "y", "p", "e">>,
                           IF HasKey(args, <<"g", "r", "a", "n", "t", "_", "t", "y", "p", "e">>)
                           THEN GetKey(args, <<"g", "r", "a", "n", "t", "_", "t", "y", "p", "e">>) ELSE <<"p", "a", "s", "s", "w", "o", "r", "d">>>> >>
                 /\ calls[q.call].data = args
            /\ q.op = "refreshToken" =>
                 /\ GrantTypesSent(q) = << <<<<"g", "r", "a", "n", "t", "_", "t", "y", "p", "e">>, <<"r", "e", "f", "r", "e", "s", "h", "_", "t", "o", "k", "e", "n">>>> >>
                 /\ calls[q.call].data = args

\* refreshToken was called with data that names another grant type
C10_Witness ==
    \E r \in Requests :
        /\ reqs[r].op = "refreshToken"
        /\ HasKey(calls[reqs[r].call].args, <<"g", "r", "a", "n", "t", "_", "t", "y", "p", "e">>)
        /\ GetKey(calls[reqs[r].call].args, <<"g", "r", "a", "n", "t", "_", "t", "y", "p", "e">>) = <<"p", "a", "s", "s", "w", "o", "r", "d">>

(***************************************************************************)
(* SpecConc: MaxCalls callers, each with a retrieve or a refreshToken call *)
(* in flight, the events of their requests interleaved.  Caller c passes   *)
(* its own token Tc or refresh token Rc.                                   *)
(***************************************************************************)
DigitChar(c) == <<"1", "2", "3", "4", "5", "6", "7", "8", "9">>[c]

Callers == 1..MaxCalls

SlotTokenData(c) == [token |-> JSStr(<<"T", DigitChar(c)>>)]
SlotRefreshData(c) == << <<<<"r", "e", "f", "r", "e", "s", "h", "_", "t", "o", "k", "e", "n">>, <<"R", DigitChar(c)>> >> >>

ConcChunkSet == {"1"}

RECURSIVE TotalSent(_)
\* the 'data' events delivered so far on requests 1..n
TotalSent(n) == IF n = 0 THEN 0 ELSE Len(reqs[n].sent) + TotalSent(n - 1)

\* callers are numbered in the order in which they call
IsNextCaller(c) == c = Len(reqs) + 1

InitConc ==
    /\ calls = [c \in Callers |-> IdleCall]
    /\ reqs = <<>>
    /\ cbLog = [c \in Callers |-> <<>>]
    /\ cli = NoCli

NextConc ==
    \/ \E c \in Callers : IsNextCaller(c) /\ CallRetrieve(c, SlotTokenData(c))
    \/ \E c \in Callers : IsNextCaller(c) /\ CallRefreshToken(c, SlotRefreshData(c))
    \/ \E r \in Requests, status \in Statuses : OnResponse(r, status)
    \/ \E r \in Requests, chunk \in ConcChunkSet :
           TotalSent(Len(reqs)) < ConcChunks /\ OnData(r, chunk, ConcChunks)
    \/ \E r \in Requests : OnEnd(r)
    \/ \E r \in Requests, e \in TransportErrors : OnError(r, e)

SpecConc == InitConc /\ [][NextConc]_vars

\* C6: with several calls in flight and their events interleaved, each caller's
\* callback receives exactly the outcomes of its own request (computed from the
\* status and the chunks the server sent on that request, or its transport
\* error), and each request carries the token or body of its own caller only.
C6_NoCrossCallSharing ==
    \A r \in Requests :
        LET q == reqs[r]
            c == q.call
            args == calls[c].args
        IN  /\ \A s \in Requests : reqs[s].call = c => s = r
            /\ cbLog[c] = [i \in 1..Len(q.fired) |->
                               [err |-> q.fired[i].err, res |-> q.fired[i].res]]
            /\ \A f \in Fired(q) :
                   /\ f.via = "response" =>
                        [err |-> f.err, res |-> f.res] = responseOutcome(q.status, q.sent)
                   /\ f.via = "error" => f.err.kind = "TransportError"
            /\ q.op = "retrieve" =>
                   /\ q.options.headers["Authorization"] = <<"B", "e", "a", "r", "e", "r", " ">> \o args.token.chars
                   /\ q.written = <<>>
            /\ q.op = "refreshToken" =>
                   q.written = <<<<"r", "e", "f", "r", "e", "s", "h", "_", "t", "o", "k", "e", "n", "=">> \o GetKey(args, <<"r", "e", "f", "r", "e", "s", "h", "_", "t", "o", "k", "e", "n">>)
                                   \o <<"&", "g", "r", "a", "n", "t", "_", "t", "y", "p", "e", "=", "r", "e", "f", "r", "e", "s", "h", "_", "t", "o", "k", "e", "n">>>>

\* two calls of the same method were in flight together and completed with
\* different statuses and different bodies
C6_Witness ==
    \E r1, r2 \in Requests :
        /\ r1 # r2
        /\ reqs[r1].op = "retrieve" /\ reqs[r2].op = "retrieve"
        /\ reqs[r1].phase = "ended" /\ reqs[r2].phase = "ended"
        /\ reqs[r1].status # reqs[r2].status
        /\ reqs[r1].sent # reqs[r2].sent
        /\ cbLog[reqs[r1].call] # <<>> /\ cbLog[reqs[r2].call] # <<>>

(***************************************************************************)
(* SpecCli: one run of bin/remove-document.                                *)
(***************************************************************************)
CliPositional == <<<<"c", "i", "d">>, <<"s", "e", "c">>, <<"u", "@", "x", ".", "c", "o", "m">>, <<"p">>, <<"d", "o", "c", "1">>>>

CliArgvs ==
    {CliPositional,
     CliPositional \o <<<<"-", "-", "c", "a", "n", "c", "e", "l", "-", "i", "n", "v", "i", "t", "e", "s">>>>,
     <<<<"-", "-", "c", "a", "n", "c", "e", "l", "-", "i", "n", "v", "i", "t", "e", "s">>>> \o CliPositional,
     <<<<"-", "-", "d", "e", "v">>>> \o CliPositional,
     SubSeq(CliPositional, 1, 4) \o <<<<"-", "-", "d", "e", "v">>, <<"-", "-", "c", "a", "n", "c", "e", "l", "-", "i", "n", "v", "i", "t", "e", "s">>>>
         \o SubSeq(CliPositional, 5, 5)}

CliChunkSet == {DocTokenT1, DocTokenT2, DocNull, "1"}

InitCli ==
    /\ calls = [c \in {} |-> IdleCall]
    /\ reqs = <<>>
    /\ cbLog = [c \in {} |-> <<>>]
    /\ \E argv \in CliArgvs :
         cli = [pc |-> "start", argv |-> argv, production |-> TRUE,
                promise |-> [p \in {"getAccessToken", "removeDocument"} |->
                                [state |-> "none"]],
                removeCalls |-> <<>>, stdout |-> <<>>, stderr |-> <<>>]

CliStart ==
    /\ cli.pc = "start"
    /\ Commit(CliMain(State))

NextCli ==
    \/ CliStart
    \/ \E r \in Requests, status \in Statuses : OnResponse(r, status)
    \/ \E r \in Requests, chunk \in CliChunkSet : OnData(r, chunk, CliChunks)
    \/ \E r \in Requests : OnEnd(r)
    \/ \E r \in Requests, e \in TransportErrors : OnError(r, e)

SpecCli == InitCli /\ [][NextCli]_vars

RemovalRequests == {r \in Requests : reqs[r].op = "removeDocument"}
TokenRequests == {r \in Requests : reqs[r].op = "requestToken"}

\* the first outcome the token request handed to its callback was an error
TokenFailed ==
    \E r \in TokenRequests : reqs[r].fired # <<>> /\ reqs[r].fired[1].err # JSNull

\* C7: the removal request is issued only after the token request completed
\* successfully; it is called with the access_token of that token response, the
\* document id given on the command line and the cancelInvites flag; and it is
\* never issued once the token request has ended in an error.
C7_RemovalAfterToken ==
    /\ Cardinality(RemovalRequests) = Len(cli.removeCalls)
    /\ Cardinality(RemovalRequests) <= 1
    /\ TokenFailed => RemovalRequests = {}
    /\ RemovalRequests # {} =>
         \E r \in TokenRequests :
             /\ \A d \in RemovalRequests : r < d
             /\ reqs[r].phase = "ended"
             /\ Is2xx(reqs[r].status)
             /\ JSONParse(reqs[r].sent).ok
             /\ reqs[r].fired[1].via = "response"
             /\ cli.removeCalls =
                  <<[id |-> JSStr(<<"d", "o", "c", "1">>),
                     options |-> [cancelInvites |->
                                     \E i \in 1..Len(cli.argv) :
                                         cli.argv[i] = <<"-", "-", "c", "a", "n", "c", "e", "l", "-", "i", "n", "v", "i", "t", "e", "s">>],
                     token |-> Prop(JSONParse(reqs[r].sent).value, "access_token")]>>

\* a removal was issued with token T2 and cancelInvites set
C7_Witness ==
    /\ RemovalRequests # {}
    /\ cli.removeCalls[1].token = JSStr(<<"T", "2">>)
    /\ cli.removeCalls[1].options.cancelInvites

Outputs == Len(cli.stdout) + Len(cli.stderr)

Completed(r) == reqs[r].phase = "ended" \/ reqs[r].errored

\* C8: a run in which the calls complete ends with exactly one output: the
\* removal result on standard output when token acquisition and removal both
\* succeeded, otherwise the error on standard error; an error of either step is
\* never written to standard output and never dropped.
C8_OneOutput ==
    /\ Outputs <= 1
    /\ (\E r \in RemovalRequests : Completed(r)) => Outputs = 1
    /\ (\E r \in TokenRequests : Completed(r) /\ RemovalRequests = {}) => Outputs = 1
    /\ \A i \in 1..Len(cli.stdout) :
           \E r \in RemovalRequests :
               /\ Succeeded(reqs[r])
               /\ \E f \in Fired(reqs[r]) : f.err = JSNull /\ f.res = cli.stdout[i]
    /\ \A r \in Requests :
           \A f \in Fired(reqs[r]) :
               f.err # JSNull => \E i \in 1..Len(cli.stderr) : cli.stderr[i] = f.err

=============================================================================
